---- MODULE Spec2Model ----
(***************************************************************************)
(* Transcription job pipeline of longcut: the process handler              *)
(* (app/api/transcribe/process/route.ts), the cancel handler               *)
(* (app/api/transcribe/cancel/route.ts), the credit ledger stored          *)
(* procedures (supabase/migrations/20260111120000_ai_transcription_        *)
(* feature.sql), for one user with one billing-period window, and the      *)
(* model cascade of transcribeAudio (lib/gemini-transcription-client.ts).  *)
(*                                                                         *)
(* Spec           one process invocation, its progress callbacks, a cancel *)
(* SpecConcurrent two process invocations for the same job, a cancel       *)
(* SpecConsume    two concurrent consume calls for two jobs of the user    *)
(* SpecLedger     check, consume and refund called one at a time, the      *)
(*                subscription limit changing between calls                *)
(* SpecTopup      two concurrent top-up credit calls, consume and refund   *)
(* SpecCascade    one transcribeAudio call: validation, upload, cascade    *)
(***************************************************************************)
EXTENDS Integers, Sequences, FiniteSets, TLC

(* ------------------------------ bounds --------------------------------- *)
MaxLimit == 2
MaxTopup == 2
MaxInFlight == 2
\* direct ledger calls made in one behaviour
MaxCalls == 3
\* minutes bought by one top-up purchase
MaxPurchase == 2
\* getFile polls of an uploaded file that is still PROCESSING
MaxPolls == 2
\* chunk results handed to one mergeChunkedTranscriptions call
MaxChunks == 2
\* entries of the picker array of a Cobalt response
MaxPicker == 2
\* status and cancel requests answered in one behaviour
MaxRequests == 2
\* status reads one TranscriptionProgress component issues
MaxReads == 3

Jobs == {"j1", "j2"}
\* the job the process and cancel requests of Spec are issued for
PipelineJobs == {"j1"}
Procs == {"p1", "p2"}
Cancellers == {"c1"}
\* durations (seconds) a transcription may report for a job
Durations == {45, 61, 121}

\* the invocations are interchangeable: they start in the order of Procs
EarlierProcs(p) == IF p = "p2" THEN {"p1"} ELSE {}

Null == "null"
Free == "free"
Segments == "segments"

VARIABLES
  job,        \* transcription_jobs rows: status, progress, transcriptData, errorMessage
  duration,   \* seconds of audio of each job's video (reported by the transcription)
  usage,      \* transcription_usage rows, in insertion order
  topup,      \* profiles.transcription_minutes_topup of the user
  topup0,     \* the top-up balance at the start (never written)
  limit,      \* subscription limit passed as p_subscription_limit
  lock,       \* holder of the row lock on the user's profile row
  inflight,   \* progress writes issued without await, not yet applied
  pc,         \* position of each process invocation
  pjob,       \* jobId of each process invocation
  tix,        \* number of progress reports the transcription has made
  cread,      \* values read by consume under the lock (v_topup_minutes, v_used_subscription)
  cres,       \* consumeResult.success of each invocation: allowed, denied
  rsnap,      \* rows read by the refund's FOR loop
  presp,      \* response of each process invocation
  cpc,        \* position of each cancel request
  cjob,       \* jobId of each cancel request
  cseen,      \* job.status as fetched by the cancel request
  cresp,      \* HTTP status of each cancel request, 0 before the response
  purchases,  \* transcription_topup_purchases rows
  credit,     \* position and arguments of each add_transcription_topup_credits call
  last,       \* the latest direct ledger call: arguments, result, values before it
  tr,         \* the transcribeAudio call: position, model, attempt, lastError, result
  mg,         \* the mergeChunkedTranscriptions call: its argument and what it returned
  cb,         \* the getYouTubeAudioUrl call: the Cobalt response and what it returned
  acc,        \* the latest status or cancel request checked for ownership, and its response
  poller      \* the TranscriptionProgress component: its state and the reads it issued

vars == <<job, duration, usage, topup, topup0, limit, lock, inflight, pc, pjob, tix,
          cread, cres, rsnap, presp, cpc, cjob, cseen, cresp, purchases, credit, last, tr,
          mg, cb, acc, poller>>

procVars == <<pc, pjob, tix, cread, cres, presp>>
cancelVars == <<cpc, cjob, cseen, cresp>>
ledgerVars == <<purchases, credit, last>>
auxVars == <<mg, cb, acc, poller>>

(* ------------------------------ job rows ------------------------------- *)
Statuses == {"pending", "downloading", "transcribing", "completed", "failed", "cancelled"}
terminalStatuses == {"completed", "failed", "cancelled"}

\* a row as created by the submission endpoint (column defaults of the table)
NewJob == [status |-> "pending", progress |-> 0, transcriptData |-> Null, errorMessage |-> Null]

\* updateTranscriptionJobStatus: writes the given columns of the row, keeps the others
updateTranscriptionJobStatus(j, fields) ==
  job' = [job EXCEPT ![j] =
            [c \in DOMAIN job[j] |-> IF c \in DOMAIN fields THEN fields[c] ELSE job[j][c]]]

(* ------------------------------ ledger --------------------------------- *)
RECURSIVE SumMinutes(_)
SumMinutes(rows) ==
  IF rows = <<>> THEN 0 ELSE Head(rows).minutes + SumMinutes(Tail(rows))

IsSubscriptionRow(r) == r.source = "subscription"
IsTopupRow(r) == r.source = "topup"

\* get_transcription_usage_in_period (one user, one period window)
get_transcription_usage_in_period == SumMinutes(SelectSeq(usage, IsSubscriptionRow))

UsageOfJob(j) == SelectSeq(usage, LAMBDA r : r.job = j)
UsageSum(j) == SumMinutes(UsageOfJob(j))
TopupSumOf(rows) == SumMinutes(SelectSeq(rows, IsTopupRow))

Max(a, b) == IF a >= b THEN a ELSE b

\* Math.ceil(duration / 60)
CeilMinutes(seconds) == (seconds + 59) \div 60

ProfileRowLockFree_NoLock == TRUE
\* SELECT ... FROM profiles WHERE id = p_user_id FOR UPDATE waits for the row lock
ProfileRowLockFree == lock = Free

SplitOf_TopupFirst(minutes, remaining, topupRead) ==
  IF topupRead >= minutes
    THEN [allowed |-> TRUE, fromSub |-> 0, fromTopup |-> minutes]
  ELSE IF remaining + topupRead >= minutes
    THEN [allowed |-> TRUE, fromSub |-> minutes - topupRead, fromTopup |-> topupRead]
  ELSE [allowed |-> FALSE, fromSub |-> 0, fromTopup |-> 0]
\* IF v_subscription_remaining >= p_minutes ... ELSIF ... ELSE: the split of
\* p_minutes over the subscription allowance and the top-up balance
SplitOf(minutes, remaining, topupRead) ==
  IF remaining >= minutes
    THEN [allowed |-> TRUE, fromSub |-> minutes, fromTopup |-> 0]
  ELSE IF remaining + topupRead >= minutes
    THEN [allowed |-> TRUE, fromSub |-> remaining, fromTopup |-> minutes - remaining]
  ELSE [allowed |-> FALSE, fromSub |-> 0, fromTopup |-> 0]

SubscriptionRemaining_NoFloor(used) == limit - used
\* GREATEST(0, p_subscription_limit - v_used_subscription)
SubscriptionRemaining(used) == Max(0, limit - used)

ConsumeSplit_SubscriptionOnly(minutes, used, topupRead) ==
  SplitOf(minutes, SubscriptionRemaining(used), 0)
\* the split computed by consume_transcription_minutes_atomically
ConsumeSplit(minutes, used, topupRead) ==
  SplitOf(minutes, SubscriptionRemaining(used), topupRead)

UsageRow(j, m, src) == [job |-> j, minutes |-> m, source |-> src]

RowsFor_SubscriptionRowOnly(j, split) ==
  IF split.fromSub > 0 THEN <<UsageRow(j, split.fromSub, "subscription")>> ELSE <<>>
\* the INSERTs of consume_transcription_minutes_atomically
RowsFor(j, split) ==
  (IF split.fromSub > 0 THEN <<UsageRow(j, split.fromSub, "subscription")>> ELSE <<>>)
  \o (IF split.fromTopup > 0 THEN <<UsageRow(j, split.fromTopup, "topup")>> ELSE <<>>)

(* --------------------- direct calls of the ledger ---------------------- *)
\* callers of add_transcription_topup_credits (Stripe webhook deliveries)
Creditors == {"k1", "k2"}
PaymentIntents == {"pi1", "pi2"}
\* jobs the direct consume and refund calls are made for
LedgerJobs == {"j1", "j2"}

\* the record kept of the latest direct ledger call or plan change
NoCall ==
  [seq |-> 0, op |-> "none", job |-> Null, intent |-> Null, minutes |-> 0, limit |-> 0,
   allowed |-> FALSE, reason |-> Null, fromSub |-> 0, fromTopup |-> 0,
   subRemaining |-> 0, totalRemaining |-> 0, topupBefore |-> 0, usedBefore |-> 0,
   repeated |-> FALSE, checked |-> "none"]

CreditIdle == [pc |-> "idle", intent |-> Null, minutes |-> 0]

LedgerInit ==
  /\ purchases = <<>>
  /\ credit = [k \in Creditors |-> CreditIdle]
  /\ last = NoCall

(* ------------------------- transcribeAudio: data ----------------------- *)
\* const MAX_INLINE_SIZE_BYTES = 20 * 1024 * 1024
MAX_INLINE_SIZE_BYTES == 20 * 1024 * 1024
\* const MAX_FILE_SIZE = 520 * 1024 * 1024
MAX_FILE_SIZE == 520 * 1024 * 1024

\* audio files handed to transcribeAudio: size in bytes, and whether the
\* file name has a supported extension
Audios ==
  [size : {0, 1, MAX_INLINE_SIZE_BYTES, MAX_INLINE_SIZE_BYTES + 1,
           MAX_FILE_SIZE, MAX_FILE_SIZE + 1},
   supported : BOOLEAN]

\* const TRANSCRIPTION_MODELS: primary model first, then fallbacks
TRANSCRIPTION_MODELS ==
  <<"gemini-3-flash-preview", "gemini-2.5-flash-lite", "gemini-3-pro-preview">>
\* const MAX_RETRIES = 3
MAX_RETRIES == 3

\* options.model: "none" when the caller names no preferred model
PreferredModels == {"none"} \cup {TRANSCRIPTION_MODELS[i] : i \in 1..Len(TRANSCRIPTION_MODELS)}

\* errors: status and code are 0 when the error has no such member
NoError == [status |-> 0, code |-> 0, message |-> "none"]
NoResult == [model |-> "none", segments |-> "none"]

\* the state of a transcribeAudio call on entry
TrStart(audio, preferred) ==
  [pc |-> "validate", audio |-> audio, preferred |-> preferred, file |-> "none",
   polls |-> 0, model |-> 1, attempt |-> 0, lastError |-> NoError, thrown |-> NoError,
   resp |-> "none", rejected |-> FALSE, log |-> <<>>, result |-> NoResult,
   raised |-> NoError]

\* the call of the process handler: a small supported file, no preferred model
TrRouteCall == TrStart([size |-> 1, supported |-> TRUE], "none")

(* ------------------- mergeChunkedTranscriptions: data ------------------ *)
\* offsetSeconds and result.duration of a chunk, in seconds
ChunkOffsets == {0, 120}
ChunkDurations == {10, 130}
\* result.segments of a chunk: text and local start
SegmentLists ==
  {<<>>, <<[text |-> "a", start |-> 5]>>,
   <<[text |-> "a", start |-> 5], [text |-> "b", start |-> 7]>>}

ChunkResults ==
  [result : [segments : SegmentLists, duration : ChunkDurations],
   offsetSeconds : ChunkOffsets]

MergeInputs == UNION {[1..n -> ChunkResults] : n \in 0..MaxChunks}

NoMerged == [segments |-> <<>>, duration |-> 0]

\* the state of a mergeChunkedTranscriptions call on entry
MergeStart(results) == [pc |-> "call", results |-> results, out |-> NoMerged]

(* ----------------------- getYouTubeAudioUrl: data ---------------------- *)
\* picker entries: type and url
PickerEntries == [type : {"video", "audio"}, url : {"a1", "a2"}]
PickerLists == UNION {[1..n -> PickerEntries] : n \in 0..MaxPicker}

\* what the Cobalt API answers: response.ok, and the members of the JSON body;
\* url "none" is an absent or empty url, status "stream" a status the client
\* does not know
CobaltResponses ==
  [ok : BOOLEAN, status : {"tunnel", "redirect", "picker", "error", "stream"},
   url : {"none", "u"}, picker : PickerLists]

\* the state of a getYouTubeAudioUrl call once fetch has resolved
CobaltStart(response) ==
  [pc |-> "call", response |-> response, url |-> "none", raised |-> FALSE]

(* ------------------- status and cancel requests: data ------------------ *)
\* the user the jobs belong to, and another authenticated user
JobOwner == "u1"
Users == {"u1", "u2"}

NoBody == [status |-> "none", progress |-> 0, transcriptData |-> Null, errorMessage |-> Null]
NoAccess == [seq |-> 0, kind |-> "none", user |-> "none", scoped |-> FALSE, job |-> Null,
             code |-> 0, body |-> NoBody]

\* the TranscriptionProgress component before its dialog is opened: status is
\* the React state, effect says that the polling effect has to run, inflight
\* counts the reads without response, late says that a read was issued after
\* a terminal status had been observed
PollerClosed ==
  [open |-> FALSE, status |-> "pending", effect |-> FALSE, inflight |-> 0, reads |-> 0,
   terminalSeen |-> FALSE, late |-> FALSE]

AuxInit ==
  /\ mg = MergeStart(<<>>)
  /\ cb = CobaltStart([ok |-> FALSE, status |-> "error", url |-> "none", picker |-> <<>>])
  /\ acc = NoAccess
  /\ poller = PollerClosed

(* ------------------------------ initial state -------------------------- *)
\* the job is pending; Invocations is the set of sets of process requests
\* that may be issued for it
InitWith(Invocations) ==
  /\ job = [j \in Jobs |-> NewJob]
  /\ duration \in [Jobs -> Durations]
  /\ \A j \in Jobs \ PipelineJobs : duration[j] = 45
  /\ usage = <<>>
  /\ topup \in 0..MaxTopup
  /\ topup0 = topup
  /\ limit \in 0..MaxLimit
  /\ lock = Free
  /\ inflight = {}
  /\ pc \in {[p \in Procs |-> IF p \in issued THEN "idle" ELSE "none"] : issued \in Invocations}
  /\ pjob = [p \in Procs |-> Null]
  /\ tix = [p \in Procs |-> 0]
  /\ cread = [p \in Procs |-> Null]
  /\ cres = [p \in Procs |-> Null]
  /\ rsnap = [x \in Procs \cup Cancellers |-> Null]
  /\ presp = [p \in Procs |-> Null]
  /\ cpc = [c \in Cancellers |-> "idle"]
  /\ cjob = [c \in Cancellers |-> Null]
  /\ cseen = [c \in Cancellers |-> Null]
  /\ cresp = [c \in Cancellers |-> 0]
  /\ LedgerInit
  /\ AuxInit
  /\ tr = TrRouteCall

(* ------------------- POST /api/transcribe/process ---------------------- *)
\* the progress values transcribeAudio reports, in order, for an inline upload
\* whose first attempt succeeds
ProgressReports == <<0, 10, 30, 40, 80, 100>>

\* 30 + Math.floor(progress.progress * 0.6)
transcriptionProgress(progress) == 30 + ((progress * 6) \div 10)

AfterConsume_FailOnDenied(success) == IF success THEN "markCompleted" ELSE "failMark"
\* if (!consumeResult.success) only logs: the handler goes on to the completed write
AfterConsume(success) == "markCompleted"

SkipsJob_CompletedOnly(status) == status = "completed"
\* job.status === 'completed' || job.status === 'cancelled' || job.status === 'failed'
SkipsJob(status) == status \in {"completed", "cancelled", "failed"}

\* getTranscriptionJob and the check of the fetched status
ProcessFetchJob(p, j) ==
  /\ pc[p] = "idle"
  /\ \A q \in EarlierProcs(p) : pc[q] # "idle"
  /\ pjob' = [pjob EXCEPT ![p] = j]
  /\ IF SkipsJob(job[j].status)
       THEN /\ pc' = [pc EXCEPT ![p] = "done"]
            /\ presp' = [presp EXCEPT ![p] = "skipped"]
       ELSE /\ pc' = [pc EXCEPT ![p] = "markDownloading"]
            /\ presp' = presp
  /\ UNCHANGED <<job, duration, usage, topup, limit, topup0, lock, inflight, tix, cread, cres, rsnap>>
  /\ UNCHANGED cancelVars
  /\ UNCHANGED <<ledgerVars, tr, auxVars>>

ProcessMarkDownloading(p) ==
  /\ pc[p] = "markDownloading"
  /\ updateTranscriptionJobStatus(pjob[p], [status |-> "downloading", progress |-> 10])
  /\ pc' = [pc EXCEPT ![p] = "download"]
  /\ UNCHANGED <<duration, usage, topup, limit, topup0, lock, inflight, pjob, tix, cread, cres, rsnap, presp>>
  /\ UNCHANGED cancelVars
  /\ UNCHANGED <<ledgerVars, tr, auxVars>>

\* extractYouTubeAudio returns or throws
ProcessDownload(p) ==
  /\ pc[p] = "download"
  /\ \E ok \in BOOLEAN :
       pc' = [pc EXCEPT ![p] = IF ok THEN "markTranscribing" ELSE "failMark"]
  /\ UNCHANGED <<job, duration, usage, topup, limit, topup0, lock, inflight, pjob, tix, cread, cres, rsnap, presp>>
  /\ UNCHANGED cancelVars
  /\ UNCHANGED <<ledgerVars, tr, auxVars>>

ProcessMarkTranscribing(p) ==
  /\ pc[p] = "markTranscribing"
  /\ updateTranscriptionJobStatus(pjob[p], [status |-> "transcribing", progress |-> 30])
  /\ pc' = [pc EXCEPT ![p] = "transcribe"]
  /\ UNCHANGED <<duration, usage, topup, limit, topup0, lock, inflight, pjob, tix, cread, cres, rsnap, presp>>
  /\ UNCHANGED cancelVars
  /\ UNCHANGED <<ledgerVars, tr, auxVars>>

\* the progress callback: a job update that is not awaited
ProcessProgressCallback(p) ==
  /\ pc[p] = "transcribe"
  /\ tix[p] < Len(ProgressReports)
  /\ Cardinality(inflight) < MaxInFlight
  /\ tix' = [tix EXCEPT ![p] = @ + 1]
  /\ inflight' = inflight \cup
       {[job |-> pjob[p], progress |-> transcriptionProgress(ProgressReports[tix[p] + 1])]}
  /\ UNCHANGED <<job, duration, usage, topup, limit, topup0, lock, pc, pjob, cread, cres, rsnap, presp>>
  /\ UNCHANGED cancelVars
  /\ UNCHANGED <<ledgerVars, tr, auxVars>>

\* the datastore applies a progress write that was in flight
ApplyProgressWrite(w) ==
  /\ w \in inflight
  /\ updateTranscriptionJobStatus(w.job, [progress |-> w.progress])
  /\ inflight' = inflight \ {w}
  /\ UNCHANGED <<duration, usage, topup, limit, topup0, lock, rsnap>>
  /\ UNCHANGED procVars
  /\ UNCHANGED cancelVars
  /\ UNCHANGED <<ledgerVars, tr, auxVars>>

\* transcribeAudio returns its result
TranscribeReturn(p, reported) ==
  /\ pc[p] = "transcribe"
  /\ tix[p] = reported
  /\ pc' = [pc EXCEPT ![p] = "mark90"]
  /\ tix' = [tix EXCEPT ![p] = 0]
  /\ UNCHANGED <<job, duration, usage, topup, limit, topup0, lock, inflight, pjob, cread, cres, rsnap, presp>>
  /\ UNCHANGED cancelVars
  /\ UNCHANGED <<ledgerVars, tr, auxVars>>

\* transcribeAudio returns after all its progress reports
ProcessTranscribeReturn(p) == TranscribeReturn(p, Len(ProgressReports))

\* transcribeAudio returns; the writes of its progress reports are left out
ProcessTranscribeReturnSilent(p) == TranscribeReturn(p, 0)

\* transcribeAudio throws (validation, upload, or the cascade is exhausted)
ProcessTranscribeThrow(p) ==
  /\ pc[p] = "transcribe"
  /\ pc' = [pc EXCEPT ![p] = "failMark"]
  /\ tix' = [tix EXCEPT ![p] = 0]
  /\ UNCHANGED <<job, duration, usage, topup, limit, topup0, lock, inflight, pjob, cread, cres, rsnap, presp>>
  /\ UNCHANGED cancelVars
  /\ UNCHANGED <<ledgerVars, tr, auxVars>>

ProcessMarkFinalizing(p) ==
  /\ pc[p] = "mark90"
  /\ updateTranscriptionJobStatus(pjob[p], [progress |-> 90])
  /\ pc' = [pc EXCEPT ![p] = "consume"]
  /\ UNCHANGED <<duration, usage, topup, limit, topup0, lock, inflight, pjob, tix, cread, cres, rsnap, presp>>
  /\ UNCHANGED cancelVars
  /\ UNCHANGED <<ledgerVars, tr, auxVars>>

\* consume_transcription_minutes_atomically, up to the reads made under the row lock
ConsumeLock(p) ==
  /\ pc[p] = "consume"
  /\ ProfileRowLockFree
  /\ lock' = p
  /\ cread' = [cread EXCEPT ![p] = [topup |-> topup, used |-> get_transcription_usage_in_period]]
  /\ pc' = [pc EXCEPT ![p] = "consumeApply"]
  /\ UNCHANGED <<job, duration, usage, topup, limit, topup0, inflight, pjob, tix, cres, rsnap, presp>>
  /\ UNCHANGED cancelVars
  /\ UNCHANGED <<ledgerVars, tr, auxVars>>

\* consume_transcription_minutes_atomically, from the split to the commit;
\* the CHECK (transcription_minutes_topup >= 0) aborts the transaction
ConsumeApply(p) ==
  /\ pc[p] = "consumeApply"
  /\ LET minutes == CeilMinutes(duration[pjob[p]])
         split == ConsumeSplit(minutes, cread[p].used, cread[p].topup)
         ok == split.allowed /\ topup - split.fromTopup >= 0
     IN /\ usage' = IF ok THEN usage \o RowsFor(pjob[p], split) ELSE usage
        /\ topup' = IF ok THEN topup - split.fromTopup ELSE topup
        /\ cres' = [cres EXCEPT ![p] = IF ok THEN "allowed" ELSE "denied"]
        /\ pc' = [pc EXCEPT ![p] = AfterConsume(ok)]
  /\ lock' = IF lock = p THEN Free ELSE lock
  /\ cread' = [cread EXCEPT ![p] = Null]
  /\ UNCHANGED <<job, duration, limit, topup0, inflight, pjob, tix, rsnap, presp>>
  /\ UNCHANGED cancelVars
  /\ UNCHANGED <<ledgerVars, tr, auxVars>>

ProcessMarkCompleted(p) ==
  /\ pc[p] = "markCompleted"
  /\ updateTranscriptionJobStatus(pjob[p],
       [status |-> "completed", progress |-> 100, transcriptData |-> Segments])
  /\ pc' = [pc EXCEPT ![p] = "done"]
  /\ presp' = [presp EXCEPT ![p] = "completed"]
  /\ UNCHANGED <<duration, usage, topup, limit, topup0, lock, inflight, pjob, tix, cread, cres, rsnap>>
  /\ UNCHANGED cancelVars
  /\ UNCHANGED <<ledgerVars, tr, auxVars>>

(* ------------------------- refund_transcription_minutes ---------------- *)
\* the FOR loop's query reads the job's usage rows
RefundRead(x, j) == rsnap' = [rsnap EXCEPT ![x] = UsageOfJob(j)]

RowsAfterRefund_KeepRows(j) == usage
\* DELETE FROM transcription_usage WHERE job_id = p_job_id
RowsAfterRefund(j) == SelectSeq(usage, LAMBDA r : r.job # j)

\* the loop credits the top-up rows it read, then the DELETE removes the job's rows
RefundApply(x, j) ==
  /\ TopupSumOf(rsnap[x]) > 0 => ProfileRowLockFree
  /\ topup' = topup + TopupSumOf(rsnap[x])
  /\ usage' = RowsAfterRefund(j)
  /\ rsnap' = [rsnap EXCEPT ![x] = Null]

\* handleJobFailure: the failed write
HandleJobFailureMark(p) ==
  /\ pc[p] = "failMark"
  /\ updateTranscriptionJobStatus(pjob[p], [status |-> "failed", errorMessage |-> "error"])
  /\ pc' = [pc EXCEPT ![p] = "failRefund"]
  /\ UNCHANGED <<duration, usage, topup, limit, topup0, lock, inflight, pjob, tix, cread, cres, rsnap, presp>>
  /\ UNCHANGED cancelVars
  /\ UNCHANGED <<ledgerVars, tr, auxVars>>

\* handleJobFailure: refundTranscriptionMinutes
HandleJobFailureRefundRead(p) ==
  /\ pc[p] = "failRefund"
  /\ RefundRead(p, pjob[p])
  /\ pc' = [pc EXCEPT ![p] = "failRefundApply"]
  /\ UNCHANGED <<job, duration, usage, topup, limit, topup0, lock, inflight, pjob, tix, cread, cres, presp>>
  /\ UNCHANGED cancelVars
  /\ UNCHANGED <<ledgerVars, tr, auxVars>>

HandleJobFailureRefundApply(p) ==
  /\ pc[p] = "failRefundApply"
  /\ RefundApply(p, pjob[p])
  /\ pc' = [pc EXCEPT ![p] = "done"]
  /\ presp' = [presp EXCEPT ![p] = "failed"]
  /\ UNCHANGED <<job, duration, limit, topup0, lock, inflight, pjob, tix, cread, cres>>
  /\ UNCHANGED cancelVars
  /\ UNCHANGED <<ledgerVars, tr, auxVars>>

(* ------------------- POST /api/transcribe/cancel ----------------------- *)
cancellableStatuses_WithCompleted == {"pending", "downloading", "transcribing", "completed"}
cancellableStatuses == {"pending", "downloading", "transcribing"}

\* the select of the job row and the check of its status
CancelFetchJob(c, j) ==
  /\ cpc[c] = "idle"
  /\ cjob' = [cjob EXCEPT ![c] = j]
  /\ cseen' = [cseen EXCEPT ![c] = job[j].status]
  /\ IF job[j].status \notin cancellableStatuses
       THEN /\ cpc' = [cpc EXCEPT ![c] = "done"]
            /\ cresp' = [cresp EXCEPT ![c] = 400]
       ELSE /\ cpc' = [cpc EXCEPT ![c] = "cancel"]
            /\ cresp' = cresp
  /\ UNCHANGED <<job, duration, usage, topup, limit, topup0, lock, inflight, rsnap>>
  /\ UNCHANGED procVars
  /\ UNCHANGED <<ledgerVars, tr, auxVars>>

\* cancelTranscriptionJob: flips the status to cancelled
CancelMark(c) ==
  /\ cpc[c] = "cancel"
  /\ updateTranscriptionJobStatus(cjob[c], [status |-> "cancelled"])
  /\ cpc' = [cpc EXCEPT ![c] = "refund"]
  /\ UNCHANGED <<duration, usage, topup, limit, topup0, lock, inflight, rsnap, cjob, cseen, cresp>>
  /\ UNCHANGED procVars
  /\ UNCHANGED <<ledgerVars, tr, auxVars>>

\* cancelTranscriptionJob: refund of the job's minutes
CancelRefundRead(c) ==
  /\ cpc[c] = "refund"
  /\ RefundRead(c, cjob[c])
  /\ cpc' = [cpc EXCEPT ![c] = "refundApply"]
  /\ UNCHANGED <<job, duration, usage, topup, limit, topup0, lock, inflight, cjob, cseen, cresp>>
  /\ UNCHANGED procVars
  /\ UNCHANGED <<ledgerVars, tr, auxVars>>

CancelRefundApply(c) ==
  /\ cpc[c] = "refundApply"
  /\ RefundApply(c, cjob[c])
  /\ cpc' = [cpc EXCEPT ![c] = "done"]
  /\ cresp' = [cresp EXCEPT ![c] = 200]
  /\ UNCHANGED <<job, duration, limit, topup0, lock, inflight, cjob, cseen>>
  /\ UNCHANGED procVars
  /\ UNCHANGED <<ledgerVars, tr, auxVars>>

(* ----------- the ledger's stored procedures, called one at a time ------- *)
\* minutes passed as p_minutes: Math.ceil(duration / 60) of a reported duration
LedgerMinutes == {CeilMinutes(d) : d \in Durations}

\* the caller passes p_subscription_limit on every call; the user's plan, and
\* with it the limit passed from now on, changes
ChangeSubscriptionLimit(l) ==
  /\ last.seq < MaxCalls
  /\ l # limit
  /\ limit' = l
  /\ last' = [NoCall EXCEPT !.seq = last.seq + 1, !.op = "plan", !.limit = l]
  /\ UNCHANGED <<job, duration, usage, topup, topup0, lock, inflight, rsnap, purchases, credit>>
  /\ UNCHANGED <<procVars, cancelVars, tr, auxVars>>

ConsumeReason_AlwaysOK(allowed) == "OK"
\* 'reason' of consume_transcription_minutes_atomically for a pro user
ConsumeReason(allowed) == IF allowed THEN "OK" ELSE "INSUFFICIENT_CREDITS"

\* consume_transcription_minutes_atomically as one transaction
LedgerConsume(j, m) ==
  /\ last.seq < MaxCalls
  /\ ProfileRowLockFree
  /\ LET used == get_transcription_usage_in_period
         split == ConsumeSplit(m, used, topup)
         ok == split.allowed /\ topup - split.fromTopup >= 0
     IN /\ usage' = IF ok THEN usage \o RowsFor(j, split) ELSE usage
        /\ topup' = IF ok THEN topup - split.fromTopup ELSE topup
        /\ last' = [NoCall EXCEPT !.seq = last.seq + 1, !.op = "consume", !.job = j,
                                  !.minutes = m, !.limit = limit, !.allowed = ok,
                                  !.reason = IF split.allowed /\ ~ok THEN "check_violation"
                                             ELSE ConsumeReason(split.allowed),
                                  !.fromSub = split.fromSub, !.fromTopup = split.fromTopup,
                                  !.subRemaining = SubscriptionRemaining(used) - split.fromSub,
                                  !.totalRemaining = SubscriptionRemaining(used) + topup
                                                     - split.fromSub - split.fromTopup,
                                  !.topupBefore = topup, !.usedBefore = used,
                                  !.checked = IF last.op = "check" /\ last.minutes = m
                                                THEN (IF last.allowed THEN "allowed" ELSE "denied")
                                              ELSE "none"]
  /\ UNCHANGED <<job, duration, limit, topup0, lock, inflight, rsnap, purchases, credit>>
  /\ UNCHANGED <<procVars, cancelVars, tr, auxVars>>

\* refund_transcription_minutes as one transaction
LedgerRefund(j) ==
  /\ last.seq < MaxCalls
  /\ TopupSumOf(UsageOfJob(j)) > 0 => ProfileRowLockFree
  /\ topup' = topup + TopupSumOf(UsageOfJob(j))
  /\ usage' = RowsAfterRefund(j)
  /\ last' = [NoCall EXCEPT !.seq = last.seq + 1, !.op = "refund", !.job = j,
                            !.minutes = UsageSum(j), !.allowed = TRUE, !.reason = "OK",
                            !.topupBefore = topup,
                            !.usedBefore = get_transcription_usage_in_period,
                            !.repeated = (last.op = "refund" /\ last.job = j)]
  /\ UNCHANGED <<job, duration, limit, topup0, lock, inflight, rsnap, purchases, credit>>
  /\ UNCHANGED <<procVars, cancelVars, tr, auxVars>>

CheckAllowed_OffByOne(total, needed) == total >= needed - 1
\* 'allowed', v_total_remaining >= p_minutes_needed
CheckAllowed(total, needed) == total >= needed

\* check_transcription_minutes_available for a pro user
check_transcription_minutes_available(needed) ==
  LET used == get_transcription_usage_in_period
      remaining == SubscriptionRemaining(used)
      total == remaining + topup
  IN [allowed |-> CheckAllowed(total, needed),
      reason |-> IF CheckAllowed(total, needed) THEN "OK" ELSE "INSUFFICIENT_CREDITS",
      subscription_remaining |-> remaining,
      topup_remaining |-> topup,
      total_remaining |-> total]

LedgerCheck(m) ==
  /\ last.seq < MaxCalls
  /\ LET r == check_transcription_minutes_available(m)
     IN last' = [NoCall EXCEPT !.seq = last.seq + 1, !.op = "check", !.minutes = m,
                               !.limit = limit,
                               !.allowed = r.allowed, !.reason = r.reason,
                               !.subRemaining = r.subscription_remaining,
                               !.totalRemaining = r.total_remaining,
                               !.topupBefore = topup,
                               !.usedBefore = get_transcription_usage_in_period]
  /\ UNCHANGED <<job, duration, usage, topup, limit, topup0, lock, inflight, rsnap,
                 purchases, credit>>
  /\ UNCHANGED <<procVars, cancelVars, tr, auxVars>>

PurchaseRecorded(pi) == \E i \in 1..Len(purchases) : purchases[i].intent = pi

UniqueViolation_NoConstraint(pi) == FALSE
\* stripe_payment_intent_id text NOT NULL UNIQUE
UniqueViolation(pi) == PurchaseRecorded(pi)

CreditsInProgress == Cardinality({k \in Creditors : credit[k].pc = "insert"})

\* add_transcription_topup_credits: the IF EXISTS check, and the return when
\* the purchase is already recorded
CreditCheck(k, pi, m) ==
  /\ credit[k].pc = "idle"
  /\ last.seq + CreditsInProgress < MaxCalls
  /\ IF PurchaseRecorded(pi)
       THEN /\ last' = [NoCall EXCEPT !.seq = last.seq + 1, !.op = "credit",
                                      !.intent = pi, !.minutes = m, !.allowed = TRUE,
                                      !.reason = "already_processed",
                                      !.topupBefore = topup,
                                      !.usedBefore = get_transcription_usage_in_period]
            /\ UNCHANGED credit
       ELSE /\ credit' = [credit EXCEPT ![k] = [pc |-> "insert", intent |-> pi, minutes |-> m]]
            /\ UNCHANGED last
  /\ UNCHANGED <<job, duration, usage, topup, limit, topup0, lock, inflight, rsnap, purchases>>
  /\ UNCHANGED <<procVars, cancelVars, tr, auxVars>>

\* add_transcription_topup_credits: INSERT the purchase, UPDATE the balance,
\* commit; a second row for the payment intent aborts the transaction
CreditInsert(k) ==
  /\ credit[k].pc = "insert"
  /\ ProfileRowLockFree
  /\ LET pi == credit[k].intent
         m == credit[k].minutes
         ok == ~UniqueViolation(pi)
     IN /\ purchases' = IF ok THEN Append(purchases, [intent |-> pi, minutes |-> m])
                        ELSE purchases
        /\ topup' = IF ok THEN topup + m ELSE topup
        /\ last' = [NoCall EXCEPT !.seq = last.seq + 1, !.op = "credit",
                                  !.intent = pi, !.minutes = m, !.allowed = ok,
                                  !.reason = IF ok THEN "credited" ELSE "unique_violation",
                                  !.topupBefore = topup,
                                  !.usedBefore = get_transcription_usage_in_period]
  /\ credit' = [credit EXCEPT ![k] = CreditIdle]
  /\ UNCHANGED <<job, duration, usage, limit, topup0, lock, inflight, rsnap>>
  /\ UNCHANGED <<procVars, cancelVars, tr, auxVars>>

(* ------------------------------ transcribeAudio ------------------------ *)
\* validateAudioFile: empty, larger than MAX_FILE_SIZE, or of an unsupported format
validateAudioFile(audio) ==
  IF audio.size = 0 THEN [valid |-> FALSE, error |-> "File is empty"]
  ELSE IF audio.size > MAX_FILE_SIZE THEN [valid |-> FALSE, error |-> "File too large"]
  ELSE IF ~audio.supported THEN [valid |-> FALSE, error |-> "Unsupported format"]
  ELSE [valid |-> TRUE, error |-> "none"]

\* const useFilesApi = audioFile.size > MAX_INLINE_SIZE_BYTES
useFilesApi(audio) == audio.size > MAX_INLINE_SIZE_BYTES

\* new Error(message): an error without status or code
ErrorOf(message) == [status |-> 0, code |-> 0, message |-> message]

\* options.model first, then the other models of TRANSCRIPTION_MODELS
ModelsOf(preferred) ==
  IF preferred = "none" THEN TRANSCRIPTION_MODELS
  ELSE <<preferred>> \o SelectSeq(TRANSCRIPTION_MODELS, LAMBDA m : m # preferred)

\* errors model.generateContent may throw
ApiErrors ==
  {[status |-> 503, code |-> 0, message |-> "Service Unavailable"],
   [status |-> 429, code |-> 0, message |-> "Too Many Requests"],
   [status |-> 500, code |-> 0, message |-> "Internal Server Error"],
   [status |-> 502, code |-> 0, message |-> "Bad Gateway"],
   [status |-> 504, code |-> 0, message |-> "Gateway Timeout"],
   [status |-> 400, code |-> 0, message |-> "Bad Request"],
   [status |-> 0, code |-> 503, message |-> "unavailable"],
   [status |-> 0, code |-> 0, message |-> "The model is overloaded"],
   [status |-> 0, code |-> 0, message |-> "Rate limit exceeded"],
   [status |-> 0, code |-> 0, message |-> "Quota exceeded"],
   [status |-> 0, code |-> 0, message |-> "got status: 503"],
   [status |-> 0, code |-> 0, message |-> "fetch failed"]}

\* message.includes('503'), message.includes('429') and the three
\* message.toLowerCase().includes(...) tests, for the messages above
MessageIncludes(message) ==
  CASE message = "The model is overloaded" -> {"overload"}
    [] message = "Rate limit exceeded" -> {"rate limit"}
    [] message = "Quota exceeded" -> {"quota"}
    [] message = "got status: 503" -> {"503"}
    [] OTHER -> {}

isRetryableError(error) ==
  LET status == IF error.status # 0 THEN error.status ELSE error.code
  IN \/ status = 503
     \/ status = 429
     \/ status = 500
     \/ MessageIncludes(error.message) \cap {"503", "429", "overload", "rate limit", "quota"} # {}

\* provider responses: a well-formed transcript, text that is not JSON, JSON
\* without totalDuration, JSON with a segment whose start is not a number
Responses == {"valid", "notJson", "missingField", "badSegment"}

\* JSON.parse(responseText)
JsonParses(response) == response # "notJson"

SchemaAccepts_SegmentsArrayOnly(response) == response \in {"valid", "missingField", "badSegment"}
\* transcriptionResponseSchema.parse(parsed)
SchemaAccepts(response) == response = "valid"

\* what model.generateContent does: it throws an error or returns a response
Outcomes ==
  {[error |-> e, response |-> "none"] : e \in ApiErrors}
  \cup {[error |-> NoError, response |-> r] : r \in Responses}

\* executeTranscription: the result, or the error thrown
executeTranscription(modelName, outcome) ==
  IF outcome.error # NoError THEN [ok |-> FALSE, error |-> outcome.error, result |-> NoResult]
  ELSE IF ~JsonParses(outcome.response)
    THEN [ok |-> FALSE, error |-> ErrorOf("SyntaxError"), result |-> NoResult]
  ELSE IF ~SchemaAccepts(outcome.response)
    THEN [ok |-> FALSE, error |-> ErrorOf("ZodError"), result |-> NoResult]
  ELSE [ok |-> TRUE, error |-> NoError,
        result |-> [model |-> modelName, segments |-> outcome.response]]

MoreAttempts_OneMore(attempt) == attempt + 1 <= MAX_RETRIES
\* for (let attempt = 0; attempt < MAX_RETRIES; attempt++)
MoreAttempts(attempt) == attempt + 1 < MAX_RETRIES

RetriesSameModel_AnyError(error, attempt) == MoreAttempts(attempt)
\* the catch block: continue on a retryable error while the attempt loop has
\* turns left, otherwise break (or fall out of the loop) to the next model
RetriesSameModel(error, attempt) == isRetryableError(error) /\ MoreAttempts(attempt)

NextLastError_KeepFirst(lastError, error) == IF lastError = NoError THEN error ELSE lastError
\* lastError = error instanceof Error ? error : new Error(String(error))
NextLastError(lastError, error) == error

\* validation, and the choice between the inline and the uploaded audio part
TrValidate ==
  /\ tr.pc = "validate"
  /\ LET validation == validateAudioFile(tr.audio)
     IN tr' = IF ~validation.valid
                THEN [tr EXCEPT !.pc = "raised", !.raised = ErrorOf(validation.error)]
              ELSE IF useFilesApi(tr.audio) THEN [tr EXCEPT !.pc = "upload"]
              ELSE [tr EXCEPT !.pc = "cascade"]
  /\ UNCHANGED <<job, duration, usage, topup, topup0, limit, lock, inflight, rsnap>>
  /\ UNCHANGED <<procVars, cancelVars, ledgerVars, auxVars>>

\* uploadViaFilesApi: fileManager.uploadFile returns the file or throws
TrUpload(outcome) ==
  /\ tr.pc = "upload"
  /\ tr' = IF outcome = "throw"
             THEN [tr EXCEPT !.pc = "raised", !.raised = ErrorOf("upload failed")]
           ELSE [tr EXCEPT !.pc = "poll", !.file = outcome]
  /\ UNCHANGED <<job, duration, usage, topup, topup0, limit, lock, inflight, rsnap>>
  /\ UNCHANGED <<procVars, cancelVars, ledgerVars, auxVars>>

\* uploadViaFilesApi: while (file.state === 'PROCESSING') await sleep(2000)
TrSleep ==
  /\ tr.pc = "poll"
  /\ tr.file = "PROCESSING"
  /\ tr' = [tr EXCEPT !.pc = "getFile"]
  /\ UNCHANGED <<job, duration, usage, topup, topup0, limit, lock, inflight, rsnap>>
  /\ UNCHANGED <<procVars, cancelVars, ledgerVars, auxVars>>

\* uploadViaFilesApi: file = await fileManager.getFile(file.name); the loop
\* counts nothing, polls stops counting at MaxPolls
TrPoll(outcome) ==
  /\ tr.pc = "getFile"
  /\ tr' = IF outcome = "throw"
             THEN [tr EXCEPT !.pc = "raised", !.raised = ErrorOf("getFile failed")]
           ELSE [tr EXCEPT !.pc = "poll", !.file = outcome,
                           !.polls = IF tr.polls < MaxPolls THEN tr.polls + 1 ELSE tr.polls]
  /\ UNCHANGED <<job, duration, usage, topup, topup0, limit, lock, inflight, rsnap>>
  /\ UNCHANGED <<procVars, cancelVars, ledgerVars, auxVars>>

FileReady_AnyState(state) == TRUE
\* file.state === 'ACTIVE'
FileReady(state) == state = "ACTIVE"

\* uploadViaFilesApi: after the loop, if (file.state !== 'ACTIVE') throw
TrUploadDone ==
  /\ tr.pc = "poll"
  /\ tr.file # "PROCESSING"
  /\ tr' = IF ~FileReady(tr.file)
             THEN [tr EXCEPT !.pc = "raised", !.raised = ErrorOf("File upload failed")]
           ELSE [tr EXCEPT !.pc = "cascade", !.polls = 0]
  /\ UNCHANGED <<job, duration, usage, topup, topup0, limit, lock, inflight, rsnap>>
  /\ UNCHANGED <<procVars, cancelVars, ledgerVars, auxVars>>

\* one turn of the inner loop: executeTranscription returns, or its error is
\* caught and the loops move on
TrAttempt(outcome) ==
  /\ tr.pc = "cascade"
  /\ LET models == ModelsOf(tr.preferred)
         modelName == models[tr.model]
         r == executeTranscription(modelName, outcome)
         retry == RetriesSameModel(r.error, tr.attempt)
         entry == [model |-> modelName,
                   outcome |-> IF r.ok THEN "ok"
                               ELSE IF isRetryableError(r.error) THEN "retryable"
                               ELSE "fatal"]
         seen == [tr EXCEPT !.log = Append(tr.log, entry),
                            !.resp = outcome.response,
                            !.rejected = tr.rejected \/ outcome.response \in Responses \ {"valid"}]
     IN tr' = IF r.ok
                THEN [seen EXCEPT !.pc = "returned", !.result = r.result]
              ELSE IF retry
                THEN [seen EXCEPT !.attempt = tr.attempt + 1,
                                  !.lastError = NextLastError(tr.lastError, r.error),
                                  !.thrown = r.error]
              ELSE [seen EXCEPT !.pc = IF tr.model < Len(models) THEN "cascade" ELSE "exhausted",
                                !.model = tr.model + 1, !.attempt = 0,
                                !.lastError = NextLastError(tr.lastError, r.error),
                                !.thrown = r.error]
  /\ UNCHANGED <<job, duration, usage, topup, topup0, limit, lock, inflight, rsnap>>
  /\ UNCHANGED <<procVars, cancelVars, ledgerVars, auxVars>>

\* throw lastError || new Error('Gemini transcription failed after all retries')
TrThrow ==
  /\ tr.pc = "exhausted"
  /\ tr' = [tr EXCEPT !.pc = "raised",
                      !.raised = IF tr.lastError # NoError THEN tr.lastError
                                 ELSE ErrorOf("Gemini transcription failed after all retries")]
  /\ UNCHANGED <<job, duration, usage, topup, topup0, limit, lock, inflight, rsnap>>
  /\ UNCHANGED <<procVars, cancelVars, ledgerVars, auxVars>>

(* ------------------------------ specification -------------------------- *)
Next ==
  \/ \E p \in Procs, j \in PipelineJobs : ProcessFetchJob(p, j)
  \/ \E p \in Procs : ProcessMarkDownloading(p)
  \/ \E p \in Procs : ProcessDownload(p)
  \/ \E p \in Procs : ProcessMarkTranscribing(p)
  \/ \E p \in Procs : ProcessProgressCallback(p)
  \/ \E w \in inflight : ApplyProgressWrite(w)
  \/ \E p \in Procs : ProcessTranscribeReturn(p)
  \/ \E p \in Procs : ProcessTranscribeThrow(p)
  \/ \E p \in Procs : ProcessMarkFinalizing(p)
  \/ \E p \in Procs : ConsumeLock(p)
  \/ \E p \in Procs : ConsumeApply(p)
  \/ \E p \in Procs : ProcessMarkCompleted(p)
  \/ \E p \in Procs : HandleJobFailureMark(p)
  \/ \E p \in Procs : HandleJobFailureRefundRead(p)
  \/ \E p \in Procs : HandleJobFailureRefundApply(p)
  \/ \E c \in Cancellers, j \in PipelineJobs : CancelFetchJob(c, j)
  \/ \E c \in Cancellers : CancelMark(c)
  \/ \E c \in Cancellers : CancelRefundRead(c)
  \/ \E c \in Cancellers : CancelRefundApply(c)

\* one process invocation, with its progress callbacks, and a cancel request
Init == InitWith({{"p1"}})

Spec == Init /\ [][Next]_vars

(* --------------- two process invocations for the same job -------------- *)
\* The progress callbacks write only the progress column, which no handler
\* reads: the interleavings of two invocations are explored without them.
InitConcurrent == InitWith({Procs})

NextConcurrent ==
  \/ \E p \in Procs, j \in PipelineJobs : ProcessFetchJob(p, j)
  \/ \E p \in Procs : ProcessMarkDownloading(p)
  \/ \E p \in Procs : ProcessDownload(p)
  \/ \E p \in Procs : ProcessMarkTranscribing(p)
  \/ \E p \in Procs : ProcessTranscribeReturnSilent(p)
  \/ \E p \in Procs : ProcessTranscribeThrow(p)
  \/ \E p \in Procs : ProcessMarkFinalizing(p)
  \/ \E p \in Procs : ConsumeLock(p)
  \/ \E p \in Procs : ConsumeApply(p)
  \/ \E p \in Procs : ProcessMarkCompleted(p)
  \/ \E p \in Procs : HandleJobFailureMark(p)
  \/ \E p \in Procs : HandleJobFailureRefundRead(p)
  \/ \E p \in Procs : HandleJobFailureRefundApply(p)
  \/ \E c \in Cancellers, j \in PipelineJobs : CancelFetchJob(c, j)
  \/ \E c \in Cancellers : CancelMark(c)
  \/ \E c \in Cancellers : CancelRefundRead(c)
  \/ \E c \in Cancellers : CancelRefundApply(c)

SpecConcurrent == InitConcurrent /\ [][NextConcurrent]_vars

TypeOK ==
  /\ \A j \in Jobs : job[j].status \in Statuses /\ job[j].progress \in 0..100
  /\ topup \in Nat

(* --------------- concurrent consume calls for different jobs ----------- *)
\* two invocations, for two jobs of the user, have both reached the consume call
InitConsume ==
  /\ job = [j \in Jobs |-> [status |-> "transcribing", progress |-> 90,
                            transcriptData |-> Null, errorMessage |-> Null]]
  /\ duration \in [Jobs -> Durations]
  /\ usage = <<>>
  /\ topup \in 0..MaxTopup
  /\ topup0 = topup
  /\ limit \in 0..MaxLimit
  /\ lock = Free
  /\ inflight = {}
  /\ pc = [p \in Procs |-> "consume"]
  /\ pjob = [p \in Procs |-> IF p = "p1" THEN "j1" ELSE "j2"]
  /\ tix = [p \in Procs |-> 0]
  /\ cread = [p \in Procs |-> Null]
  /\ cres = [p \in Procs |-> Null]
  /\ rsnap = [x \in Procs \cup Cancellers |-> Null]
  /\ presp = [p \in Procs |-> Null]
  /\ cpc = [c \in Cancellers |-> "idle"]
  /\ cjob = [c \in Cancellers |-> Null]
  /\ cseen = [c \in Cancellers |-> Null]
  /\ cresp = [c \in Cancellers |-> 0]
  /\ LedgerInit
  /\ AuxInit
  /\ tr = TrRouteCall

NextConsume ==
  \/ \E p \in Procs : ConsumeLock(p)
  \/ \E p \in Procs : ConsumeApply(p)

SpecConsume == InitConsume /\ [][NextConsume]_vars

\* the ledger's stored procedures called directly, one transaction at a time
InitLedger ==
  /\ job = [j \in Jobs |-> NewJob]
  /\ duration = [j \in Jobs |-> 45]
  /\ usage = <<>>
  /\ topup \in 0..MaxTopup
  /\ topup0 = topup
  /\ limit \in 0..MaxLimit
  /\ lock = Free
  /\ inflight = {}
  /\ pc = [p \in Procs |-> "none"]
  /\ pjob = [p \in Procs |-> Null]
  /\ tix = [p \in Procs |-> 0]
  /\ cread = [p \in Procs |-> Null]
  /\ cres = [p \in Procs |-> Null]
  /\ rsnap = [x \in Procs \cup Cancellers |-> Null]
  /\ presp = [p \in Procs |-> Null]
  /\ cpc = [c \in Cancellers |-> "idle"]
  /\ cjob = [c \in Cancellers |-> Null]
  /\ cseen = [c \in Cancellers |-> Null]
  /\ cresp = [c \in Cancellers |-> 0]
  /\ LedgerInit
  /\ AuxInit
  /\ tr = TrRouteCall

NextLedger ==
  \/ \E l \in 0..MaxLimit : ChangeSubscriptionLimit(l)
  \/ \E j \in LedgerJobs, m \in LedgerMinutes : LedgerConsume(j, m)
  \/ \E j \in LedgerJobs : LedgerRefund(j)
  \/ \E m \in LedgerMinutes : LedgerCheck(m)

SpecLedger == InitLedger /\ [][NextLedger]_vars

\* two deliveries of the top-up webhook in flight, and the consume and refund
\* calls of one job
NextTopup ==
  \/ \E k \in Creditors, pi \in PaymentIntents, m \in 1..MaxPurchase : CreditCheck(k, pi, m)
  \/ \E k \in Creditors : CreditInsert(k)
  \/ \E m \in LedgerMinutes : LedgerConsume("j1", m)
  \/ LedgerRefund("j1")

SpecTopup == InitLedger /\ [][NextTopup]_vars

\* one transcribeAudio call, for any audio file and preferred model
InitCascade ==
  /\ job = [j \in Jobs |-> NewJob]
  /\ duration = [j \in Jobs |-> 45]
  /\ usage = <<>>
  /\ topup = 0
  /\ topup0 = 0
  /\ limit = 0
  /\ lock = Free
  /\ inflight = {}
  /\ pc = [p \in Procs |-> "none"]
  /\ pjob = [p \in Procs |-> Null]
  /\ tix = [p \in Procs |-> 0]
  /\ cread = [p \in Procs |-> Null]
  /\ cres = [p \in Procs |-> Null]
  /\ rsnap = [x \in Procs \cup Cancellers |-> Null]
  /\ presp = [p \in Procs |-> Null]
  /\ cpc = [c \in Cancellers |-> "idle"]
  /\ cjob = [c \in Cancellers |-> Null]
  /\ cseen = [c \in Cancellers |-> Null]
  /\ cresp = [c \in Cancellers |-> 0]
  /\ LedgerInit
  /\ AuxInit
  /\ tr \in {TrStart(a, m) : a \in Audios, m \in PreferredModels}

FileStates == {"PROCESSING", "ACTIVE", "FAILED"}

NextCascade ==
  \/ TrValidate
  \/ \E o \in FileStates \cup {"throw"} : TrUpload(o)
  \/ TrSleep
  \/ \E o \in FileStates \cup {"throw"} : TrPoll(o)
  \/ TrUploadDone
  \/ \E o \in Outcomes : TrAttempt(o)
  \/ TrThrow

SpecCascade == InitCascade /\ [][NextCascade]_vars

\* every external call transcribeAudio awaits returns: it keeps taking steps
SpecCascadeFair == SpecCascade /\ WF_vars(NextCascade)

(* ---------------------- mergeChunkedTranscriptions --------------------- *)
InsertByOffset_Append(sorted, x) == Append(sorted, x)
\* Array.prototype.sort with (a, b) => a.offsetSeconds - b.offsetSeconds is
\* stable: x goes behind every element whose offset is not larger
InsertByOffset(sorted, x) ==
  LET k == Cardinality({i \in 1..Len(sorted) : sorted[i].offsetSeconds <= x.offsetSeconds})
  IN SubSeq(sorted, 1, k) \o <<x>> \o SubSeq(sorted, k + 1, Len(sorted))

RECURSIVE SortByOffset(_)
SortByOffset(results) ==
  IF Len(results) = 0 THEN <<>>
  ELSE InsertByOffset(SortByOffset(SubSeq(results, 1, Len(results) - 1)),
                      results[Len(results)])

\* the segments of one chunk as the loop pushes them
RebaseSegments_NoOffset(result, offsetSeconds) ==
  [i \in 1..Len(result.segments) |-> result.segments[i]]

RebaseSegments(result, offsetSeconds) ==
  [i \in 1..Len(result.segments) |->
     [result.segments[i] EXCEPT !.start = @ + offsetSeconds]]

\* the for loop over the sorted chunks
RECURSIVE MergeLoop(_, _)
MergeLoop(results, out) ==
  IF Len(results) = 0 THEN out
  ELSE LET r == results[1]
       IN MergeLoop(SubSeq(results, 2, Len(results)),
            [segments |-> out.segments \o RebaseSegments(r.result, r.offsetSeconds),
             duration |-> Max(out.duration, r.offsetSeconds + r.result.duration)])

mergeChunkedTranscriptions(results) ==
  IF Len(results) = 0 THEN [raised |-> TRUE, out |-> NoMerged]
  ELSE IF Len(results) = 1 THEN [raised |-> FALSE, out |-> results[1].result]
  ELSE [raised |-> FALSE, out |-> MergeLoop(SortByOffset(results), NoMerged)]

MergeCall ==
  /\ mg.pc = "call"
  /\ LET r == mergeChunkedTranscriptions(mg.results)
     IN mg' = [mg EXCEPT !.pc = IF r.raised THEN "raised" ELSE "returned",
                         !.out = r.out]
  /\ UNCHANGED <<job, duration, usage, topup, topup0, limit, lock, inflight, rsnap>>
  /\ UNCHANGED <<procVars, cancelVars, ledgerVars, tr, cb, acc, poller>>

\* no route has been called
QuiescentInit ==
  /\ job = [j \in Jobs |-> NewJob]
  /\ duration = [j \in Jobs |-> 45]
  /\ usage = <<>>
  /\ topup = 0
  /\ topup0 = 0
  /\ limit = 0
  /\ lock = Free
  /\ inflight = {}
  /\ pc = [p \in Procs |-> "none"]
  /\ pjob = [p \in Procs |-> Null]
  /\ tix = [p \in Procs |-> 0]
  /\ cread = [p \in Procs |-> Null]
  /\ cres = [p \in Procs |-> Null]
  /\ rsnap = [x \in Procs \cup Cancellers |-> Null]
  /\ presp = [p \in Procs |-> Null]
  /\ cpc = [c \in Cancellers |-> "idle"]
  /\ cjob = [c \in Cancellers |-> Null]
  /\ cseen = [c \in Cancellers |-> Null]
  /\ cresp = [c \in Cancellers |-> 0]
  /\ LedgerInit
  /\ tr = TrRouteCall

\* one mergeChunkedTranscriptions call, for any list of chunk results
InitMerge ==
  /\ QuiescentInit
  /\ mg \in {MergeStart(rs) : rs \in MergeInputs}
  /\ cb = CobaltStart([ok |-> FALSE, status |-> "error", url |-> "none", picker |-> <<>>])
  /\ acc = NoAccess
  /\ poller = PollerClosed

NextMerge == MergeCall

SpecMerge == InitMerge /\ [][NextMerge]_vars

(* -------------------------- getYouTubeAudioUrl ------------------------- *)
\* picker.find(p => p.type === 'audio'): the index of the first audio entry,
\* 0 when there is none
FindAudio_Last(picker) ==
  LET audio == {i \in 1..Len(picker) : picker[i].type = "audio"}
  IN IF audio = {} THEN 0 ELSE CHOOSE i \in audio : \A k \in audio : k <= i

FindAudio(picker) ==
  LET audio == {i \in 1..Len(picker) : picker[i].type = "audio"}
  IN IF audio = {} THEN 0 ELSE CHOOSE i \in audio : \A k \in audio : i <= k

getYouTubeAudioUrl(response) ==
  IF ~response.ok THEN [raised |-> TRUE, url |-> "none"]
  ELSE IF response.status = "error" THEN [raised |-> TRUE, url |-> "none"]
  ELSE IF /\ response.status = "picker"
          /\ Len(response.picker) > 0
          /\ FindAudio(response.picker) # 0
       THEN [raised |-> FALSE, url |-> response.picker[FindAudio(response.picker)].url]
  ELSE IF response.status \in {"tunnel", "redirect"} /\ response.url # "none"
       THEN [raised |-> FALSE, url |-> response.url]
  ELSE [raised |-> TRUE, url |-> "none"]

CobaltCall ==
  /\ cb.pc = "call"
  /\ LET r == getYouTubeAudioUrl(cb.response)
     IN cb' = [cb EXCEPT !.pc = IF r.raised THEN "raised" ELSE "returned",
                         !.url = r.url, !.raised = r.raised]
  /\ UNCHANGED <<job, duration, usage, topup, topup0, limit, lock, inflight, rsnap>>
  /\ UNCHANGED <<procVars, cancelVars, ledgerVars, tr, mg, acc, poller>>

\* one getYouTubeAudioUrl call, for any answer of the Cobalt API
InitCobalt ==
  /\ QuiescentInit
  /\ mg = MergeStart(<<>>)
  /\ cb \in {CobaltStart(r) : r \in CobaltResponses}
  /\ acc = NoAccess
  /\ poller = PollerClosed

NextCobalt == CobaltCall

SpecCobalt == InitCobalt /\ [][NextCobalt]_vars

(* ------------------------------ properties ----------------------------- *)
TotalUsage == SumMinutes(usage)

\* C1: under every interleaving of concurrent consume calls for different jobs
\* (no refund, no top-up), the minutes recorded in the user's usage rows never
\* exceed the subscription limit plus the top-up balance at the start, and the
\* top-up balance never drops below 0.
C1_NoOverSpend == TotalUsage <= limit + topup0 /\ topup >= 0

\* both calls have returned, one of them drew on the top-up balance
C1_Witness ==
  /\ \A p \in Procs : cres[p] # Null
  /\ \E p \in Procs : cres[p] = "allowed"
  /\ topup < topup0

\* C2: a job is charged at most once: the usage rows of a job sum to at most
\* ceil(reported duration / 60) minutes.
C2_ChargedAtMostOnce == \A j \in Jobs : UsageSum(j) <= CeilMinutes(duration[j])

HandlerCompleted(j) ==
  \/ \E p \in Procs : pjob[p] = j /\ presp[p] = "failed"
  \/ \E c \in Cancellers : cjob[c] = j /\ cresp[c] = 200

\* C4: for a job that is failed or cancelled, once the failure or cancel
\* handler has completed the usage rows of the job sum to 0.
C4_RefundedAfterHandler ==
  \A j \in Jobs :
    (job[j].status \in {"failed", "cancelled"} /\ HandlerCompleted(j)) => UsageSum(j) = 0

\* C5: completed, failed and cancelled are terminal: a job in one of them
\* never changes status again.
C5_TerminalIsFinal ==
  [][\A j \in Jobs :
       job[j].status \in {"completed", "failed", "cancelled"} =>
         job'[j].status = job[j].status]_vars

\* C6: a job's transcriptData is non-null if and only if its status is completed.
C6_TranscriptIffCompleted ==
  \A j \in Jobs : (job[j].transcriptData # Null) <=> (job[j].status = "completed")

\* C7: a job whose status is completed has progress 100.
C7_CompletedHasFullProgress ==
  \A j \in Jobs : job[j].status = "completed" => job[j].progress = 100

\* C8: a cancel request goes on to cancel only if the status it fetched is
\* pending, downloading or transcribing; a request that fetched completed,
\* failed or cancelled is answered 400, and its handling changes neither the
\* job nor the ledger.
C8_CancelOnlyCancellable ==
  /\ [](\A c \in Cancellers :
          /\ (cpc[c] \in {"cancel", "refund", "refundApply"} \/ cresp[c] = 200) =>
               cseen[c] \in {"pending", "downloading", "transcribing"}
          /\ cseen[c] \in {"completed", "failed", "cancelled"} =>
               (cpc[c] = "done" /\ cresp[c] = 400))
  /\ [][\A c \in Cancellers :
          (cpc'[c] # cpc[c] /\ cseen'[c] \in {"completed", "failed", "cancelled"}) =>
            (job' = job /\ usage' = usage /\ topup' = topup /\ cresp'[c] = 400)]_vars

\* a cancel request for a terminal job was answered 400
C8_Witness ==
  \E c \in Cancellers :
    /\ cresp[c] = 400
    /\ cseen[c] \in {"completed", "failed", "cancelled"}
    /\ job[cjob[c]].status = cseen[c]

\* C9: once a cancel request has set a job's status to cancelled, no usage
\* record is created for the job and no transcript is persisted for it.
C9_CancelObserved ==
  [][\A j \in Jobs :
       job[j].status = "cancelled" =>
         /\ Len(SelectSeq(usage', LAMBDA r : r.job = j)) <= Len(UsageOfJob(j))
         /\ job'[j].transcriptData = job[j].transcriptData]_vars

\* C10: no state is reachable in which an invocation has written failed and
\* its refund has not yet run.
C10_RefundBeforeFail ==
  \A p \in Procs :
    pc[p] \in {"failRefund", "failRefundApply"} => job[pjob[p]].status # "failed"

(* ------------------- properties of the ledger procedures ---------------- *)
\* a direct ledger call returns in this step
LedgerCallReturns == last'.seq # last.seq

\* max(0, subscriptionLimit - periodUsage), written out
AllowanceLeft == IF limit > get_transcription_usage_in_period
                   THEN limit - get_transcription_usage_in_period ELSE 0

\* C11: an allowed consume of m minutes, with s subscription minutes left in
\* the period and top-up balance t, takes min(s, m) from the subscription and
\* m - min(s, m) from the top-up, and lowers the top-up balance by exactly the
\* top-up part; s = 10, t = 20, m = 15 gives 10 and 5 and leaves top-up 15.
C11_SubscriptionFirst ==
  /\ SplitOf(15, 10, 20) = [allowed |-> TRUE, fromSub |-> 10, fromTopup |-> 5]
  /\ 20 - SplitOf(15, 10, 20).fromTopup = 15
  /\ [][(LedgerCallReturns /\ last'.op = "consume" /\ last'.allowed) =>
          LET m == last'.minutes
              fromSub == IF AllowanceLeft < m THEN AllowanceLeft ELSE m
          IN /\ AllowanceLeft + topup >= m
             /\ last'.fromSub = fromSub
             /\ last'.fromTopup = m - fromSub
             /\ topup' = topup - (m - fromSub)
             /\ get_transcription_usage_in_period' = get_transcription_usage_in_period + fromSub
             /\ TopupSumOf(usage') = TopupSumOf(usage) + (m - fromSub)]_vars

\* a consume that was split over both buckets has returned
C11_Witness ==
  /\ last.op = "consume" /\ last.allowed
  /\ last.fromSub > 0 /\ last.fromTopup > 0
  /\ topup = last.topupBefore - last.fromTopup

PurchasesOf(pi) == SelectSeq(purchases, LAMBDA r : r.intent = pi)

\* C13: however many add_transcription_topup_credits calls are made for a
\* payment intent, one after another or concurrently, at most one purchase row
\* exists for it, exactly one once a call for it has returned, and the top-up
\* balance holds the minutes of each recorded purchase exactly once.
C13_CreditedOnce ==
  /\ \A pi \in PaymentIntents : Len(PurchasesOf(pi)) <= 1
  /\ last.op = "credit" => Len(PurchasesOf(last.intent)) = 1
  /\ topup = topup0 + SumMinutes(purchases) - TopupSumOf(usage)

\* two concurrent calls for one payment intent: the second insert was refused
C13_Witness ==
  /\ last.op = "credit" /\ last.reason = "unique_violation"
  /\ Len(PurchasesOf(last.intent)) = 1
  /\ topup = topup0 + SumMinutes(purchases) - TopupSumOf(usage)

\* C14: a refund for a job without usage rows changes no balance and no row,
\* and a second refund of a job right after the first changes nothing.
C14_RefundIdempotent ==
  [][(LedgerCallReturns /\ last'.op = "refund") =>
       /\ UsageOfJob(last'.job) = <<>> => (topup' = topup /\ usage' = usage)
       /\ (last.op = "refund" /\ last.job = last'.job) => (topup' = topup /\ usage' = usage)]_vars

\* a job's top-up minutes were refunded, and the job was refunded again
C14_Witness ==
  /\ last.op = "refund" /\ last.repeated
  /\ last.minutes = 0
  /\ topup = topup0 /\ topup0 > 0 /\ usage = <<>>
  /\ last.seq = 3

\* C15: an allowed consume for a job followed directly by the refund of that
\* job restores the top-up balance and the period's subscription usage to
\* their values before the consume and leaves no usage row for the job.
C15_ConsumeRefundRestores ==
  [][(LedgerCallReturns /\ last'.op = "refund" /\ last.op = "consume" /\ last.allowed
        /\ last'.job = last.job) =>
       /\ topup' = last.topupBefore
       /\ get_transcription_usage_in_period' = last.usedBefore
       /\ UsageOfJob(last.job)' = <<>>]_vars

AttemptsOf(modelName) == SelectSeq(tr.log, LAMBDA e : e.model = modelName)

CascadeModels == ModelsOf(tr.preferred)

\* every model of the cascade has been attempted
AllModelsAttempted ==
  \A i \in 1..Len(CascadeModels) : Len(AttemptsOf(CascadeModels[i])) >= 1

\* C18: when every attempt on the first model of the cascade failed with a
\* retryable error and the second model succeeded on its first attempt,
\* transcribeAudio has returned the second model's result, after exactly
\* MAX_RETRIES (3) attempts on the first model and one on the second.
C18_RetriesThenFallback ==
  LET first == CascadeModels[1]
      second == CascadeModels[2]
  IN (/\ \A i \in 1..Len(AttemptsOf(first)) : AttemptsOf(first)[i].outcome = "retryable"
      /\ Len(AttemptsOf(second)) >= 1
      /\ AttemptsOf(second)[1].outcome = "ok")
     => /\ tr.pc = "returned"
        /\ tr.result.model = second
        /\ tr.result.segments = "valid"
        /\ Len(AttemptsOf(first)) = MAX_RETRIES
        /\ Len(AttemptsOf(first)) = 3
        /\ Len(AttemptsOf(second)) = 1
        /\ Len(tr.log) = 4

\* the first model failed three times with retryable errors, the second returned
C18_Witness ==
  /\ tr.pc = "returned"
  /\ tr.result.model = CascadeModels[2]
  /\ Len(tr.log) = 4
  /\ \A i \in 1..3 : tr.log[i] = [model |-> CascadeModels[1], outcome |-> "retryable"]
  /\ tr.log[4] = [model |-> CascadeModels[2], outcome |-> "ok"]

\* C19: transcribeAudio raises only after every model of the cascade has been
\* attempted, and the error raised is the error of the last attempt made.
C19_RaisesOnlyAfterAllModels ==
  tr.pc = "raised" => (AllModelsAttempted /\ tr.raised = tr.thrown)

\* C19, as the code has it: transcribeAudio raises either before any model is
\* attempted, when the audio file fails validation or the upload through the
\* Files API fails, or after every model of the cascade has been attempted,
\* and then the error raised is the error of the last attempt made.
C19_RaisesEarlyOrAfterAllModels ==
  tr.pc = "raised" =>
    \/ /\ tr.log = <<>>
       /\ \/ ~validateAudioFile(tr.audio).valid
          \/ useFilesApi(tr.audio) /\ tr.file # "ACTIVE"
       /\ tr.raised # NoError
    \/ /\ AllModelsAttempted
       /\ tr.log[Len(tr.log)].model = CascadeModels[Len(CascadeModels)]
       /\ tr.log[Len(tr.log)].outcome # "ok"
       /\ tr.raised = tr.thrown
       /\ tr.raised # NoError

\* the uploaded file ended FAILED and transcribeAudio raised without an attempt
C19_Witness ==
  /\ tr.pc = "raised"
  /\ tr.log = <<>>
  /\ validateAudioFile(tr.audio).valid
  /\ tr.file = "FAILED"

\* C20: transcribeAudio returns a result only from an attempt whose response
\* parsed and passed the schema validation; a response that fails validation
\* is a failed attempt and none of its segments reach the caller.
C20_OnlyValidatedResults ==
  /\ tr.pc = "returned" =>
       /\ tr.resp = "valid"
       /\ tr.result.segments = "valid"
       /\ tr.log[Len(tr.log)] = [model |-> tr.result.model, outcome |-> "ok"]
  /\ tr.pc # "returned" => tr.result = NoResult
  /\ tr.resp \in Responses \ {"valid"} =>
       /\ tr.pc # "returned"
       /\ tr.log[Len(tr.log)].outcome # "ok"
       /\ tr.thrown.message \in {"SyntaxError", "ZodError"}

\* a response failed validation on one attempt, a later attempt returned
C20_Witness ==
  /\ tr.pc = "returned"
  /\ tr.rejected
  /\ tr.resp = "valid"
  /\ Len(tr.log) >= 2

(* ------------------- status and cancel requests by user ---------------- *)
\* the rows of transcription_jobs a client can select: a client bound to the
\* caller's session runs as role authenticated under the policy
\* auth.uid() = user_id, any other client sees every row
RowVisible(user, scoped) == ~scoped \/ user = JobOwner

\* job.userId === user.id
OwnsJob_Anyone(user) == TRUE

OwnsJob(user) == user = JobOwner

\* the JSON body of a successful status response
StatusBody(j) ==
  [status |-> job[j].status,
   progress |-> job[j].progress,
   transcriptData |-> IF job[j].status = "completed" /\ job[j].transcriptData # Null
                        THEN job[j].transcriptData ELSE Null,
   errorMessage |-> IF job[j].status # "failed" THEN Null
                    ELSE IF job[j].errorMessage = Null THEN "Transcription failed"
                    ELSE job[j].errorMessage]

\* GET /api/transcribe/status for job j by an authenticated user
StatusRequest(user, j, scoped) ==
  /\ acc.seq < MaxRequests
  /\ LET code == IF ~RowVisible(user, scoped) THEN 404
                 ELSE IF ~OwnsJob(user) THEN 403 ELSE 200
     IN acc' = [seq |-> acc.seq + 1, kind |-> "status", user |-> user, scoped |-> scoped,
                job |-> j, code |-> code,
                body |-> IF code = 200 THEN StatusBody(j) ELSE NoBody]
  /\ UNCHANGED <<job, duration, usage, topup, topup0, limit, lock, inflight, rsnap>>
  /\ UNCHANGED <<procVars, cancelVars, ledgerVars, tr, mg, cb, poller>>

\* POST /api/transcribe/cancel for job j by an authenticated user: the select
\* of the row, the ownership check and the check of the status; code 0 is a
\* request that goes on to cancelTranscriptionJob
CancelRequest(user, c, j, scoped) ==
  /\ acc.seq < MaxRequests
  /\ cpc[c] = "idle"
  /\ LET code == IF ~RowVisible(user, scoped) THEN 404
                 ELSE IF ~OwnsJob(user) THEN 403
                 ELSE IF job[j].status \notin cancellableStatuses THEN 400 ELSE 0
     IN /\ acc' = [seq |-> acc.seq + 1, kind |-> "cancel", user |-> user, scoped |-> scoped,
                   job |-> j, code |-> code, body |-> NoBody]
        /\ IF code \in {404, 403}
             THEN UNCHANGED cancelVars
             ELSE /\ cjob' = [cjob EXCEPT ![c] = j]
                  /\ cseen' = [cseen EXCEPT ![c] = job[j].status]
                  /\ cpc' = [cpc EXCEPT ![c] = IF code = 400 THEN "done" ELSE "cancel"]
                  /\ cresp' = [cresp EXCEPT ![c] = code]
  /\ UNCHANGED <<job, duration, usage, topup, topup0, limit, lock, inflight, rsnap>>
  /\ UNCHANGED <<procVars, ledgerVars, tr, mg, cb, poller>>

\* one process invocation, and status and cancel requests of the owner and
\* of another user
NextAccess ==
  \/ \E p \in Procs, j \in PipelineJobs : ProcessFetchJob(p, j)
  \/ \E p \in Procs : ProcessMarkDownloading(p)
  \/ \E p \in Procs : ProcessDownload(p)
  \/ \E p \in Procs : ProcessMarkTranscribing(p)
  \/ \E p \in Procs : ProcessTranscribeReturnSilent(p)
  \/ \E p \in Procs : ProcessTranscribeThrow(p)
  \/ \E p \in Procs : ProcessMarkFinalizing(p)
  \/ \E p \in Procs : ConsumeLock(p)
  \/ \E p \in Procs : ConsumeApply(p)
  \/ \E p \in Procs : ProcessMarkCompleted(p)
  \/ \E p \in Procs : HandleJobFailureMark(p)
  \/ \E p \in Procs : HandleJobFailureRefundRead(p)
  \/ \E p \in Procs : HandleJobFailureRefundApply(p)
  \/ \E u \in Users, j \in PipelineJobs, scoped \in BOOLEAN : StatusRequest(u, j, scoped)
  \/ \E u \in Users, c \in Cancellers, j \in PipelineJobs, scoped \in BOOLEAN :
       CancelRequest(u, c, j, scoped)
  \/ \E c \in Cancellers : CancelMark(c)
  \/ \E c \in Cancellers : CancelRefundRead(c)
  \/ \E c \in Cancellers : CancelRefundApply(c)

SpecAccess == Init /\ [][NextAccess]_vars

(* ------------------------- TranscriptionProgress ----------------------- *)
\* the dialog is opened for the job: the component renders with open = true
PollerOpen ==
  /\ ~poller.open
  /\ poller.reads = 0
  /\ ~poller.terminalSeen
  /\ poller' = [poller EXCEPT !.open = TRUE, !.effect = TRUE]
  /\ UNCHANGED <<job, duration, usage, topup, topup0, limit, lock, inflight, rsnap>>
  /\ UNCHANGED <<procVars, cancelVars, ledgerVars, tr, mg, cb, acc>>

\* pollStatus up to its fetch: one more read without response
IssueRead(p) ==
  [p EXCEPT !.inflight = @ + 1, !.reads = @ + 1, !.late = @ \/ p.terminalSeen]

\* the polling effect runs after a render in which open, jobId, pollStatus or
\* status changed: it returns when the dialog is closed, otherwise it calls
\* pollStatus() and sets a new interval
PollerEffect ==
  /\ poller.effect
  /\ poller.open => poller.reads < MaxReads
  /\ poller' = IF ~poller.open THEN [poller EXCEPT !.effect = FALSE]
               ELSE [IssueRead(poller) EXCEPT !.effect = FALSE]
  /\ UNCHANGED <<job, duration, usage, topup, topup0, limit, lock, inflight, rsnap>>
  /\ UNCHANGED <<procVars, cancelVars, ledgerVars, tr, mg, cb, acc>>

\* status !== "completed" && status !== "failed" && status !== "cancelled"
TickPolls(status) == status \notin {"completed", "failed", "cancelled"}

\* the interval fires
PollerTick ==
  /\ poller.open
  /\ ~poller.effect
  /\ TickPolls(poller.status)
  /\ poller.reads < MaxReads
  /\ poller' = IssueRead(poller)
  /\ UNCHANGED <<job, duration, usage, topup, topup0, limit, lock, inflight, rsnap>>
  /\ UNCHANGED <<procVars, cancelVars, ledgerVars, tr, mg, cb, acc>>

\* the status handler answers a read of the job's owner and pollStatus goes on
\* from its fetch: setStatus, and onOpenChange(false) for a completed job with
\* a transcript
PollerResponse(j) ==
  /\ poller.inflight > 0
  /\ LET data == StatusBody(j)
         closes == data.status = "completed" /\ data.transcriptData # Null
     IN poller' = [poller EXCEPT
                     !.inflight = @ - 1,
                     !.status = data.status,
                     !.open = @ /\ ~closes,
                     !.effect = @ \/ (poller.open /\ (data.status # poller.status \/ closes)),
                     !.terminalSeen = @ \/ data.status \in terminalStatuses]
  /\ UNCHANGED <<job, duration, usage, topup, topup0, limit, lock, inflight, rsnap>>
  /\ UNCHANGED <<procVars, cancelVars, ledgerVars, tr, mg, cb, acc>>

\* one process invocation, a cancel request, and the component polling the job
InitPoller ==
  /\ Init
  /\ limit = 0
  /\ topup = 0
  /\ \A j \in Jobs : duration[j] = 45

NextPoller ==
  \/ \E p \in Procs, j \in PipelineJobs : ProcessFetchJob(p, j)
  \/ \E p \in Procs : ProcessMarkDownloading(p)
  \/ \E p \in Procs : ProcessDownload(p)
  \/ \E p \in Procs : ProcessMarkTranscribing(p)
  \/ \E p \in Procs : ProcessTranscribeReturnSilent(p)
  \/ \E p \in Procs : ProcessTranscribeThrow(p)
  \/ \E p \in Procs : ProcessMarkFinalizing(p)
  \/ \E p \in Procs : ConsumeLock(p)
  \/ \E p \in Procs : ConsumeApply(p)
  \/ \E p \in Procs : ProcessMarkCompleted(p)
  \/ \E p \in Procs : HandleJobFailureMark(p)
  \/ \E p \in Procs : HandleJobFailureRefundRead(p)
  \/ \E p \in Procs : HandleJobFailureRefundApply(p)
  \/ \E c \in Cancellers, j \in PipelineJobs : CancelFetchJob(c, j)
  \/ \E c \in Cancellers : CancelMark(c)
  \/ \E c \in Cancellers : CancelRefundRead(c)
  \/ \E c \in Cancellers : CancelRefundApply(c)
  \/ PollerOpen
  \/ PollerEffect
  \/ PollerTick
  \/ \E j \in PipelineJobs : PollerResponse(j)

SpecPoller == InitPoller /\ [][NextPoller]_vars

(* -------------------- job updates that fail ---------------------------- *)
\* the position after an awaited updateTranscriptionJobStatus
AfterUpdate(at) ==
  CASE at = "markDownloading" -> "download"
    [] at = "markTranscribing" -> "transcribe"
    [] at = "mark90" -> "consume"
    [] at = "markCompleted" -> "done"
    [] at = "failMark" -> "failRefund"

AwaitedUpdates == {"markDownloading", "markTranscribing", "mark90", "markCompleted", "failMark"}

\* an awaited updateTranscriptionJobStatus fails and the row is not written:
\* the call either resolves, and the handler goes on, or rejects, and the
\* catch of POST answers 500
ProcessUpdateFails(p, rejects) ==
  /\ pc[p] \in AwaitedUpdates
  /\ pc' = [pc EXCEPT ![p] = IF rejects THEN "done" ELSE AfterUpdate(pc[p])]
  /\ presp' = [presp EXCEPT ![p] = IF rejects THEN "error500"
                                   ELSE IF pc[p] = "markCompleted" THEN "completed"
                                   ELSE presp[p]]
  /\ UNCHANGED <<job, duration, usage, topup, topup0, limit, lock, inflight, rsnap>>
  /\ UNCHANGED <<pjob, tix, cread, cres>>
  /\ UNCHANGED <<cancelVars, ledgerVars, tr, auxVars>>

\* a progress write of the callback fails: .catch(console.error)
DropProgressWrite(w) ==
  /\ w \in inflight
  /\ inflight' = inflight \ {w}
  /\ UNCHANGED <<job, duration, usage, topup, topup0, limit, lock, rsnap>>
  /\ UNCHANGED <<procVars, cancelVars, ledgerVars, tr, auxVars>>

\* one process invocation whose job updates may fail; no cancel request
NextFaulty ==
  \/ \E p \in Procs, j \in PipelineJobs : ProcessFetchJob(p, j)
  \/ \E p \in Procs : ProcessMarkDownloading(p)
  \/ \E p \in Procs : ProcessDownload(p)
  \/ \E p \in Procs : ProcessMarkTranscribing(p)
  \/ \E p \in Procs : ProcessProgressCallback(p)
  \/ \E w \in inflight : ApplyProgressWrite(w)
  \/ \E w \in inflight : DropProgressWrite(w)
  \/ \E p \in Procs : ProcessTranscribeReturn(p)
  \/ \E p \in Procs : ProcessTranscribeThrow(p)
  \/ \E p \in Procs : ProcessMarkFinalizing(p)
  \/ \E p \in Procs, rejects \in BOOLEAN : ProcessUpdateFails(p, rejects)
  \/ \E p \in Procs : ConsumeLock(p)
  \/ \E p \in Procs : ConsumeApply(p)
  \/ \E p \in Procs : ProcessMarkCompleted(p)
  \/ \E p \in Procs : HandleJobFailureMark(p)
  \/ \E p \in Procs : HandleJobFailureRefundRead(p)
  \/ \E p \in Procs : HandleJobFailureRefundApply(p)

SpecFaulty == Init /\ [][NextFaulty]_vars

\* every call the handler awaits returns: the handler keeps taking steps
SpecFaultyFair == SpecFaulty /\ WF_vars(NextFaulty)

(* -------------------- properties: chunk merge, access ------------------ *)
\* the chunks' segments in the order of the list, every start re-based by
\* its own chunk's offsetSeconds
RECURSIVE RebasedInOrder(_)
RebasedInOrder(results) ==
  IF Len(results) = 0 THEN <<>>
  ELSE [i \in 1..Len(results[1].result.segments) |->
          [results[1].result.segments[i] EXCEPT !.start = @ + results[1].offsetSeconds]]
       \o RebasedInOrder(SubSeq(results, 2, Len(results)))

Orderings(n) == {f \in [1..n -> 1..n] : \A a, b \in 1..n : f[a] = f[b] => a = b}

\* C21: for every non-empty list of chunk results, a single chunk included,
\* the segments mergeChunkedTranscriptions returns are the chunks' segments,
\* chunk by chunk, each with start = local start + its chunk's offsetSeconds.
C21_EverySegmentRebased ==
  mg.pc = "returned" =>
    \E f \in Orderings(Len(mg.results)) :
      mg.out.segments = RebasedInOrder([i \in 1..Len(mg.results) |-> mg.results[f[i]]])

\* C22 (as claimed): chunks at offsets 0 s and 120 s, one segment at local
\* start 5 s each, merge into segments at 5 s and 125 s in that order, with a
\* reported duration of at least 125 + the duration of the chunk at 120 s.
TwoChunksAt5 ==
  /\ Len(mg.results) = 2
  /\ {mg.results[i].offsetSeconds : i \in 1..2} = {0, 120}
  /\ \A i \in 1..2 : mg.results[i].result.segments = <<[text |-> "a", start |-> 5]>>

ChunkAt(offset) == CHOOSE c \in {mg.results[i] : i \in 1..Len(mg.results)} : c.offsetSeconds = offset

C22_DurationFromSegment ==
  mg.pc = "returned" /\ TwoChunksAt5 =>
    /\ [i \in 1..Len(mg.out.segments) |-> mg.out.segments[i].start] = <<5, 125>>
    /\ mg.out.duration >= 125 + ChunkAt(120).result.duration

\* C22 (amended): the segments are at 5 s and 125 s in that order and the
\* reported duration is the larger of the first chunk's duration and 120 +
\* the second chunk's duration.
C22_DurationFromOffset ==
  mg.pc = "returned" /\ TwoChunksAt5 =>
    /\ [i \in 1..Len(mg.out.segments) |-> mg.out.segments[i].start] = <<5, 125>>
    /\ mg.out.duration = Max(ChunkAt(0).result.duration, 120 + ChunkAt(120).result.duration)
    /\ mg.out.duration >= 120 + ChunkAt(120).result.duration

\* the chunk at 120 s completed first and the chunk at 0 s is the longer one
C22_Witness ==
  /\ mg.pc = "returned"
  /\ TwoChunksAt5
  /\ mg.results[1].offsetSeconds = 120
  /\ ChunkAt(0).result.duration = 130
  /\ ChunkAt(120).result.duration = 10
  /\ mg.out.duration = 130

\* the shapes of a Cobalt answer that carry an audio URL
PickerWithAudio(r) ==
  /\ r.ok
  /\ r.status = "picker"
  /\ \E i \in 1..Len(r.picker) : r.picker[i].type = "audio"

TunnelOrRedirect(r) ==
  /\ r.ok
  /\ r.status \in {"tunnel", "redirect"}
  /\ r.url # "none"

\* C24: getYouTubeAudioUrl returns the URL of the first picker entry typed
\* audio for a picker response and the response URL for a tunnel or redirect
\* response; for a picker response without an audio entry and for every other
\* response shape it raises and returns no URL.
C24_AudioUrlOrError ==
  cb.pc # "call" =>
    LET r == cb.response
    IN /\ PickerWithAudio(r) =>
            /\ cb.pc = "returned"
            /\ \E i \in 1..Len(r.picker) :
                 /\ r.picker[i].type = "audio"
                 /\ \A k \in 1..(i - 1) : r.picker[k].type # "audio"
                 /\ cb.url = r.picker[i].url
       /\ TunnelOrRedirect(r) => cb.pc = "returned" /\ cb.url = r.url
       /\ ~PickerWithAudio(r) /\ ~TunnelOrRedirect(r) =>
            cb.pc = "raised" /\ cb.raised /\ cb.url = "none"

\* a picker with two audio entries: the URL returned is the first one's
C24_Witness ==
  /\ cb.pc = "returned"
  /\ cb.response.status = "picker"
  /\ Len(cb.response.picker) = 2
  /\ \A i \in 1..2 : cb.response.picker[i].type = "audio"
  /\ cb.response.picker[1].url = "a1"
  /\ cb.response.picker[2].url = "a2"
  /\ cb.url = "a1"

\* a request of a user who does not own the job has been answered
ForeignRequest == acc.kind # "none" /\ acc.user # JobOwner

ForeignRequestLeavesAll ==
  [][acc'.seq # acc.seq /\ acc'.user # JobOwner =>
       /\ job' = job
       /\ usage' = usage
       /\ topup' = topup
       /\ cancelVars' = cancelVars]_vars

\* C23 (as claimed): for a caller who does not own the job the status endpoint
\* answers 403 without any job field, and the cancel endpoint answers 403 and
\* leaves the job and the ledger unchanged, whatever the job's state.
C23_NonOwnerGets403 ==
  /\ [](ForeignRequest => acc.code = 403 /\ acc.body = NoBody)
  /\ ForeignRequestLeavesAll

\* C23 (amended): such a caller is answered 404 when the handler's client is
\* bound to the caller's session (the row is hidden from it) and 403 otherwise;
\* the answer carries no job field and the request leaves the job and the
\* ledger unchanged, whatever the job's state.
C23_NonOwnerRefused ==
  /\ [](ForeignRequest =>
          /\ acc.code = (IF acc.scoped THEN 404 ELSE 403)
          /\ acc.body = NoBody)
  /\ ForeignRequestLeavesAll

\* another user asked to cancel the job while it was transcribing: the job
\* is still transcribing and no cancel is under way
C23_Witness ==
  /\ acc.kind = "cancel"
  /\ acc.user = "u2"
  /\ acc.scoped
  /\ acc.code = 404
  /\ acc.seq = 2
  /\ job[acc.job].status = "transcribing"
  /\ \A c \in Cancellers : cpc[c] = "idle"

(* ------------------ properties: monotonicity, refund races ------------- *)
\* the position of a status on the path pending -> downloading ->
\* transcribing -> completed | failed | cancelled
StatusRank(s) ==
  IF s = "pending" THEN 0
  ELSE IF s = "downloading" THEN 1
  ELSE IF s = "transcribing" THEN 2
  ELSE 3

\* C25: a job's status only moves forward along pending -> downloading ->
\* transcribing -> completed (or to failed or cancelled); no sequence of
\* process invocations and cancel requests, a second invocation for a job
\* that is already downloading or transcribing included, moves it backward.
C25_StatusMonotonic ==
  [][\A j \in Jobs : StatusRank(job'[j].status) >= StatusRank(job[j].status)]_vars

\* C26: while a job is non-terminal its stored progress never decreases,
\* also when the progress callback of the transcription reports again.
C26_ProgressMonotonic ==
  [][\A j \in Jobs :
       job[j].status \notin terminalStatuses /\ job'[j].status \notin terminalStatuses =>
         job'[j].progress >= job[j].progress]_vars

\* C27: refunds run under the user's row lock, so two concurrent refund calls
\* for the same job (failure path and cancel path) credit the job's top-up
\* minutes back exactly once in total: the balance plus the top-up minutes
\* still recorded in usage rows never exceeds the balance at the start.
C27_RefundCreditsOnce == topup + TopupSumOf(usage) <= topup0

(* ------------------- properties: cascade classification ---------------- *)
\* the position of a model in the cascade of this call
CascadeIndex(modelName) == CHOOSE i \in 1..Len(CascadeModels) : CascadeModels[i] = modelName

\* C28: when an attempt fails with a non-retryable error, transcribeAudio
\* makes no further attempt on that model, and its next attempt, if any, is
\* the first attempt on the next model of the cascade.
C28_FatalAdvancesModel ==
  \A i \in 1..Len(tr.log) :
    tr.log[i].outcome = "fatal" =>
      /\ \A k \in (i + 1)..Len(tr.log) : tr.log[k].model # tr.log[i].model
      /\ i < Len(tr.log) =>
           /\ CascadeIndex(tr.log[i + 1].model) = CascadeIndex(tr.log[i].model) + 1
           /\ \A k \in 1..i : tr.log[k].model # tr.log[i + 1].model

\* the first attempt on the first model failed with a non-retryable error and
\* the second model was then attempted
C28_Witness ==
  /\ Len(tr.log) >= 2
  /\ tr.log[1].outcome = "fatal"
  /\ tr.log[1].model = CascadeModels[1]
  /\ tr.log[2].model = CascadeModels[2]

\* what an error indicates: a 5xx-class or 429 status (or code), or a message
\* that speaks of overload, rate limit or quota
IndicatesTransient(error) ==
  LET status == IF error.status # 0 THEN error.status ELSE error.code
  IN \/ status \in 500..599
     \/ status = 429
     \/ MessageIncludes(error.message) # {}

\* the latest attempt failed with tr.thrown
AttemptFailed == tr.log # <<>> /\ tr.log[Len(tr.log)].outcome # "ok"

\* C29: isRetryableError classifies as retryable every error that indicates
\* transient overload, throttling (429, rate limit, quota) or a 5xx-class
\* status, 502 and 504 included, and every other error as non-retryable.
C29_TransientIsRetryable ==
  AttemptFailed =>
    (tr.log[Len(tr.log)].outcome = "retryable" <=> IndicatesTransient(tr.thrown))

\* C30: transcribeAudio sends the audio inline only when its size is strictly
\* below the inline threshold; an audio of exactly the threshold size, or
\* larger, goes through the Files API upload.
C30_InlineOnlyBelowThreshold ==
  tr.pc = "cascade" /\ tr.file = "none" => tr.audio.size < MAX_INLINE_SIZE_BYTES

(* ------------------------ properties: last claims ----------------------- *)
\* C31: for a staged upload no transcription call is issued before the Files
\* API has reported the file ACTIVE; a file that leaves PROCESSING in another
\* state makes transcribeAudio raise without any transcription call.
C31_NoCallBeforeActive ==
  /\ useFilesApi(tr.audio) /\ tr.log # <<>> => tr.file = "ACTIVE"
  /\ tr.file \in FileStates \ {"PROCESSING", "ACTIVE"} =>
       /\ tr.log = <<>>
       /\ tr.pc \in {"poll", "raised"}
       /\ tr.result = NoResult

\* an upload through the Files API ended ACTIVE and a transcription call on
\* the uploaded file returned
C31_Witness ==
  /\ useFilesApi(tr.audio)
  /\ tr.file = "ACTIVE"
  /\ tr.log # <<>>
  /\ tr.pc = "returned"

\* the offsets of the list handed to mergeChunkedTranscriptions are pairwise
\* distinct
DistinctOffsets ==
  \A a, b \in 1..Len(mg.results) :
    mg.results[a].offsetSeconds = mg.results[b].offsetSeconds => a = b

\* the list in the order f
Permuted(f) == [i \in 1..Len(mg.results) |-> mg.results[f[i]]]

\* the texts of a segment sequence
TextsOf(segments) == [i \in 1..Len(segments) |-> segments[i].text]

RECURSIVE TextsInOrder(_)
TextsInOrder(results) ==
  IF Len(results) = 0 THEN <<>>
  ELSE TextsOf(results[1].result.segments) \o TextsInOrder(SubSeq(results, 2, Len(results)))

\* C32: for chunk results with pairwise distinct offsets,
\* mergeChunkedTranscriptions returns the same segments and the same duration
\* for every permutation of its input list, the chunks' segment lists
\* concatenated in increasing offset order.
C32_OrderIndependent ==
  mg.pc = "returned" /\ DistinctOffsets =>
    \A f \in Orderings(Len(mg.results)) :
      /\ mergeChunkedTranscriptions(Permuted(f)).out = mg.out
      /\ (\A i \in 1..(Len(mg.results) - 1) :
            Permuted(f)[i].offsetSeconds < Permuted(f)[i + 1].offsetSeconds)
           => TextsOf(mg.out.segments) = TextsInOrder(Permuted(f))

\* the chunk at the larger offset came first in the list, and the two chunks
\* differ in their segments
C32_Witness ==
  /\ mg.pc = "returned"
  /\ Len(mg.results) = 2
  /\ mg.results[1].offsetSeconds > mg.results[2].offsetSeconds
  /\ Len(mg.results[1].result.segments) = 2
  /\ Len(mg.results[2].result.segments) = 1
  /\ TextsOf(mg.out.segments) = <<"a", "a", "b">>

\* C33: in every reachable state a job's error message is set only if the
\* job's status is failed, also when another process invocation for the job
\* writes a status after a failure was recorded.
C33_ErrorOnlyIfFailed ==
  \A j \in Jobs : job[j].errorMessage # Null => job[j].status = "failed"

\* C37: a process invocation for a job whose status is already completed,
\* failed or cancelled performs no job update, no extraction or transcription
\* call and no ledger operation, and returns success with the existing status:
\* it goes from the read of the job straight to its response.
C37_TerminalJobSkipped ==
  /\ [](\A p \in Procs : presp[p] = "skipped" => pc[p] = "done")
  /\ [][\A p \in Procs :
          pc[p] = "idle" /\ pc'[p] # "idle" /\ job[pjob'[p]].status \in terminalStatuses =>
            /\ pc'[p] = "done"
            /\ presp'[p] = "skipped"
            /\ job' = job
            /\ usage' = usage
            /\ topup' = topup
            /\ inflight' = inflight
            /\ lock' = lock]_vars

\* the second invocation found the job cancelled and returned at once
C37_Witness ==
  /\ presp["p2"] = "skipped"
  /\ pc["p2"] = "done"
  /\ job["j1"].status = "cancelled"

\* C38: in any ledger state, for the same minutes, subscription limit and
\* period window, check_transcription_minutes_available reports allowed
\* exactly when a consume issued next, with no ledger operation in between,
\* succeeds.
C38_CheckAgreesWithConsume ==
  [][(LedgerCallReturns /\ last.op = "check" /\ last'.op = "consume"
        /\ last'.minutes = last.minutes)
       => (last'.allowed <=> last.allowed)]_vars

\* a check that reported not allowed was followed by a consume that was
\* refused, with an allowance that was not empty
C38_Witness ==
  /\ last.op = "consume"
  /\ last.checked = "denied"
  /\ ~last.allowed
  /\ last.topupBefore + AllowanceLeft > 0

\* the purchases recorded so far
RECURSIVE PurchasedMinutes(_)
PurchasedMinutes(rows) ==
  IF rows = <<>> THEN 0 ELSE Head(rows).minutes + PurchasedMinutes(Tail(rows))

\* C40: after any sequence of consume, refund and credit calls executed one at
\* a time, the top-up balance equals the initial balance plus the minutes of
\* all recorded purchases minus the minutes of the top-up usage rows that
\* exist.
C40_TopupConserved ==
  topup = topup0 + PurchasedMinutes(purchases) - TopupSumOf(usage)

\* a purchase was credited, a consume drew on the top-up balance, and a refund
\* has given the minutes back
C40_Witness ==
  /\ last.op = "refund"
  /\ last.topupBefore < topup
  /\ purchases # <<>>
  /\ \A k \in Creditors : credit[k].pc = "idle"
  /\ topup > topup0

\* C34: the TranscriptionProgress poller issues a status read at each interval
\* while the job is non-terminal, and no status read after it has first
\* observed a terminal status (completed, failed or cancelled).
C34_NoReadAfterTerminal == ~poller.late

\* C35: a failed progress write (a job update that changes only progress and
\* stage, not status) does not abort the job: whatever happens to the write of
\* progress 90 the invocation goes on to the consume call, and a failed write
\* of the progress callback leaves the invocation where it is.
C35_ProgressWriteNeverAborts ==
  [][/\ \A p \in Procs : pc[p] = "mark90" /\ pc'[p] # "mark90" => pc'[p] = "consume"
     /\ (inflight' # inflight /\ job' = job) => pc' = pc]_vars

\* C36: under fairness, when the extraction call and the transcription call
\* return and no cancel request arrives, the invocation returns, and it
\* returns with the job completed or failed, never with the job still
\* pending, downloading or transcribing.
C36_InvocationEndsTerminal ==
  /\ [](\A p \in Procs :
          pc[p] = "done" /\ presp[p] # "skipped" =>
            job[pjob[p]].status \in {"completed", "failed"})
  /\ <>(pc["p1"] = "done")

\* C39: provided every external call returns, every transcribeAudio call
\* eventually returns a result or raises, and it makes at most (number of
\* cascade models) x MAX_RETRIES transcription calls, the staged-upload path
\* with its readiness poll included.
C39_TranscribeAudioTerminates ==
  /\ <>(tr.pc \in {"returned", "raised"})
  /\ [](Len(tr.log) <= Len(CascadeModels) * MAX_RETRIES)

====
